---- MODULE Spec2Model ----
(***************************************************************************)
(* LiveTradeFeed of pyalgomate/brokers/finvasia/feed.py.                   *)
(*                                                                         *)
(* Two threads of the program act on one feed object: the caller's thread  *)
(* (start, dispatch, getNextBars, join, enableReconection) and a second    *)
(* thread that may call stop() at any moment.  The transport threads built *)
(* by buildWebSocketClientThread are the environment: they signal          *)
(* readiness, put events on their queue and terminate.                     *)
(***************************************************************************)
EXTENDS Integers, Sequences, FiniteSets, TLC

\* ------------------------------------------------------------- bounds
MaxThreads == 2      \* transport threads constructed in one run
MaxQueue == 2        \* events waiting in one transport queue
MaxTrades == 3       \* TRADE events produced in one run
MaxTime == 2         \* trade timestamps are 1..MaxTime
MaxLiveTrades == 1   \* TRADE events produced in one run of the whole feed

\* The trades the transport may report (instrument, price in tenths, amount).
TradePayloads ==
    { [instrument |-> "AAPL", price |-> 1500, amount |-> 5],
      [instrument |-> "AAPL", price |-> 1502, amount |-> 3],
      [instrument |-> "MSFT", price |-> 1500, amount |-> 5] }

NoThread == 0        \* self.__thread is None
NoTrade == [id |-> 0, dateTime |-> 0, instrument |-> "", price |-> 0, amount |-> 0]

VARIABLES
    tradeBars,          \* self.__tradeBars: sequence of <<dateTime, list>> in dict order
    thread,             \* self.__thread: NoThread or an index of threads
    stopped,            \* self.__stopped
    enableReconnection, \* self.__enableReconnection
    threads,            \* every transport thread object constructed so far
    queue,              \* self.__thread.getQueue(): the queue of the thread held
    pc,                 \* where the caller's thread is
    ctx,                \* the operation the caller's thread is inside
    initialized,        \* local of __initializeClient
    spc,                \* where the thread calling stop() is
    lastRet,            \* outcome of the caller's last completed operation
    lastStop,           \* outcome of the last completed stop()
    nextId,             \* identity of the next trade object
    inserted,           \* history: trades inserted by __onTrade, in order
    returned,           \* history: entries returned by getNextBars, in order
    hist                \* history flags of the current run

vars == << tradeBars, thread, stopped, enableReconnection, threads, queue, pc, ctx,
           initialized, spc, lastRet, lastStop, nextId, inserted, returned, hist >>


\* ------------------------------------------------------- the trade buffer

\* dateTime in self.__tradeBars
HasKey(d, k) == \E i \in 1..Len(d) : d[i][1] = k

\* class TradeBar: the bar of a trade.  Every price accessor answers the
\* trade's price, getVolume its amount, getDateTime its timestamp and
\* getInstrument its instrument.  No method of LiveTradeFeed constructs one.
TradeBar(trade) ==
    [ dateTime |-> trade.dateTime, instrument |-> trade.instrument,
      open |-> trade.price, high |-> trade.price, low |-> trade.price,
      close |-> trade.price, volume |-> trade.amount, trade |-> trade ]

\* {trade.getExtraColumns().get("instrument"): trade}
Entry(trade) == [instrument |-> trade.instrument, trade |-> trade]

\* variant of onTrade: the list of the timestamp is replaced by the new entry
onTradeReplace(d, trade) ==
    LET k  == trade.dateTime
        d1 == IF HasKey(d, k) THEN d ELSE Append(d, <<k, <<>>>>)
    IN  [ i \in 1..Len(d1) |->
            IF d1[i][1] = k THEN <<k, <<Entry(trade)>>>> ELSE d1[i] ]

\* __onTrade: create the list of a new dateTime at the end of the dict, append
onTrade(d, trade) ==
    LET k  == trade.dateTime
        d1 == IF HasKey(d, k) THEN d ELSE Append(d, <<k, <<>>>>)
    IN  [ i \in 1..Len(d1) |->
            IF d1[i][1] = k THEN <<k, Append(d1[i][2], Entry(trade))>> ELSE d1[i] ]

RECURSIVE InsertByKey(_, _)
InsertByKey(item, s) ==
    IF s = <<>> THEN <<item>>
    ELSE IF item[1] < Head(s)[1] THEN <<item>> \o s
    ELSE <<Head(s)>> \o InsertByKey(item, Tail(s))

RECURSIVE SortItems(_)
SortItems(items) ==
    IF items = <<>> THEN <<>>
    ELSE InsertByKey(Head(items), SortItems(Tail(items)))

\* variant of sortedDict: the dict is read in insertion order
UnsortedItems(d) == d

\* dict(sorted(self.__tradeBars.items())): the keys are distinct, so the
\* tuples are ordered by key alone
sortedDict(d) == SortItems(d)

\* variant of PopIndex: list.pop() takes the last entry
PopLastIndex(lst) == Len(lst)

\* the index list.pop(0) removes
PopIndex(lst) == 1

\* variant of dropEmptyKey: an emptied timestamp stays in the dict
KeepEmptyKey(d) == d

\* if len(self.__tradeBars[dateTime]) == 0: self.__tradeBars.pop(dateTime)
dropEmptyKey(d) == IF d # <<>> /\ Head(d)[2] = <<>> THEN Tail(d) ELSE d

\* variant of RemoveAt: the whole list of the timestamp is taken
ClearList(lst, i) == <<>>

\* the list after list.pop(i)
RemoveAt(lst, i) == [ j \in 1..(Len(lst) - 1) |-> IF j < i THEN lst[j] ELSE lst[j + 1] ]

\* getNextBars on a non-empty buffer: the entry it returns ...
nextBarsEntry(d) ==
    LET s == sortedDict(d) IN Head(s)[2][PopIndex(Head(s)[2])]

\* ... and the buffer it leaves
nextBarsDict(d) ==
    LET s   == sortedDict(d)
        lst == Head(s)[2]
    IN  dropEmptyKey(<< <<Head(s)[1], RemoveAt(lst, PopIndex(lst))>> >> \o Tail(s))

\* ------------------------------------------------------ transport threads

\* the object buildWebSocketClientThread returns, after start()
NewThread(startOk) ==
    [started |-> startOk, alive |-> startOk, stopReq |-> FALSE, ready |-> FALSE]

EventTypes == {"TRADE", "ORDER_BOOK_UPDATE", "DISCONNECTED", "UNKNOWN"}

Event(type, data) == [type |-> type, data |-> data]

\* ------------------------------------------------------------- outcomes

Ret(op, ret, exc, event) == [op |-> op, ret |-> ret, exc |-> exc, event |-> event]

\* eof()
eof == stopped

\* super(LiveTradeFeed, self).dispatch(): the base class is not part of the
\* sources.  It is the bar-delivery notification step of the framework; bars
\* leave the buffer only through getNextBars calls, which this model leaves
\* to the caller, so the step reports no work and touches no field.
baseDispatch == FALSE

\* variant of takeOne: the call takes every event that waits
DrainAll(q) == <<>>

\* self.__thread.getQueue().get(True, QUEUE_TIMEOUT) on a queue that holds
\* events: the queue it leaves
takeOne(q) == Tail(q)

\* variant of emptyRet: a timed-out Queue.get reports work
EmptyReportsWork == TRUE

\* ret = False at the top of __dispatchImpl: the result when Queue.get
\* raises Empty
emptyRet == FALSE

\* variant of stoppedOnDisconnect: the flag is left as it is
StayRunning(flag) == flag

\* variant of stoppedOnDisconnect: the event flips the flag
ToggleOnDisconnect(flag) == ~flag

\* __onDisconnected without reconnection: elif not self.__stopped:
\* self.__stopped = True
stoppedOnDisconnect(flag) == IF ~flag THEN TRUE ELSE flag

\* variant of keepTrying: the reconnection loop does not test the stop flag
RetryWhileStopped(flag) == TRUE

\* __onDisconnected: while not self.__stopped (and not
\* self.__initializeClient())
keepTrying(flag) == ~flag

\* variant of alreadyRunning: start() does not test the thread handle
NeverRunning(t) == FALSE

\* start(): if self.__thread is not None
alreadyRunning(t) == t # NoThread

\* variant of routedRet: every event taken from the queue reports work
AnyEventIsWork(type) == TRUE

\* variant of routedRet: a DISCONNECTED event reports no work
DisconnectNoWork(type) == type \in {"TRADE", "ORDER_BOOK_UPDATE"}

\* the result of __dispatchImpl for an event taken from the queue
routedRet(type) == type \in {"TRADE", "ORDER_BOOK_UPDATE", "DISCONNECTED"}

\* variant of stopCatch: stop() without its try / except
PropagateAll(exc) == exc

\* except Exception in stop(): nothing leaves stop()
stopCatch(exc) == "none"

Init ==
    /\ tradeBars = <<>>
    /\ thread = NoThread
    /\ stopped = FALSE
    /\ enableReconnection = TRUE
    /\ threads = <<>>
    /\ queue = <<>>
    /\ pc = "idle"
    /\ ctx = "none"
    /\ initialized = FALSE
    /\ spc = "idle"
    /\ lastRet = Ret("init", FALSE, "none", "none")
    /\ lastStop = "never"
    /\ nextId = 1
    /\ inserted = <<>>
    /\ returned = <<>>
    /\ hist = [stopCalled |-> FALSE, pollFailed |-> FALSE, oldThread |-> NoThread,
               discOff |-> FALSE]

\* --------------------------------------------------- the caller's thread

\* enableReconection(enableReconnection)
EnableReconection ==
    /\ pc = "idle"
    /\ \E b \in BOOLEAN :
         enableReconnection' = b
    /\ UNCHANGED << tradeBars, thread, stopped, threads, queue, pc, ctx,
                    initialized, spc, lastRet, lastStop, nextId, inserted, returned, hist >>

\* start(): raises when a transport thread exists, else enters
\* __initializeClient
Start ==
    /\ pc = "idle"
    /\ IF alreadyRunning(thread)
       THEN /\ lastRet' = Ret("start", FALSE, "AlreadyRunning", "none")
            /\ UNCHANGED << pc, ctx >>
       ELSE /\ pc' = "build"
            /\ ctx' = "start"
            /\ UNCHANGED lastRet
    /\ UNCHANGED << tradeBars, thread, stopped, enableReconnection, threads, queue,
                    initialized, spc, lastStop, nextId, inserted, returned, hist >>

\* __initializeClient, the try block: construct the transport thread and
\* start it; either call may throw, and the exception is logged.  A new
\* thread object brings its own, empty queue.
Build ==
    /\ pc = "build"
    /\ \E o \in {"ok", "buildThrows", "startThrows"} :
         IF o = "buildThrows"
         THEN UNCHANGED << thread, threads, queue >>
         ELSE /\ Len(threads) < MaxThreads
              /\ threads' = Append(threads, NewThread(o = "ok"))
              /\ thread' = Len(threads) + 1
              /\ queue' = <<>>
    /\ initialized' = FALSE
    /\ pc' = "wait"
    /\ hist' = [hist EXCEPT !.pollFailed = FALSE]
    /\ UNCHANGED << tradeBars, stopped, enableReconnection, ctx, spc, lastRet,
                    lastStop, nextId, inserted, returned >>

\* what the caller of __initializeClient does with its result
InitReturn(result) ==
    IF ctx = "start"
    THEN \* start(): a failed initialization marks the feed stopped and raises
         /\ stopped' = (IF result THEN stopped ELSE TRUE)
         /\ lastRet' = Ret("start", FALSE,
                           IF result THEN "none" ELSE "InitializationFailed", "none")
         /\ pc' = "idle"
         /\ ctx' = "none"
    ELSE \* __onDisconnected: the loop ends on success, else tests the flag again
         /\ UNCHANGED stopped
         /\ IF result
            THEN /\ lastRet' = Ret("dispatch", routedRet("DISCONNECTED") \/ baseDispatch,
                                   "none", "DISCONNECTED")
                 /\ pc' = "idle"
                 /\ ctx' = "none"
            ELSE /\ pc' = "recon"
                 /\ UNCHANGED << lastRet, ctx >>

\* __initializeClient, one turn of the wait loop
Wait ==
    /\ pc = "wait"
    /\ IF initialized
       THEN InitReturn(TRUE) /\ UNCHANGED << initialized, hist >>
       ELSE IF stopped
       THEN InitReturn(FALSE) /\ UNCHANGED << initialized, hist >>
       ELSE IF thread = NoThread
       THEN \* None.waitInitialized: the AttributeError leaves start()
            /\ lastRet' = Ret(ctx, FALSE, "AttributeError", "none")
            /\ pc' = "idle"
            /\ ctx' = "none"
            /\ UNCHANGED << stopped, initialized, hist >>
       ELSE \* waitInitialized(timeout): the readiness signal, or a timeout
            /\ initialized' = threads[thread].ready
            /\ hist' = [hist EXCEPT !.pollFailed = @ \/ ~threads[thread].ready]
            /\ UNCHANGED << stopped, pc, ctx, lastRet >>
    /\ UNCHANGED << tradeBars, thread, enableReconnection, threads, queue, spc,
                    lastStop, nextId, inserted, returned >>

\* __onDisconnected, the test of the reconnection loop
Recon ==
    /\ pc = "recon"
    /\ IF keepTrying(stopped)
       THEN /\ pc' = "build"
            /\ UNCHANGED << lastRet, ctx >>
       ELSE /\ lastRet' = Ret("dispatch", routedRet("DISCONNECTED") \/ baseDispatch,
                              "none", "DISCONNECTED")
            /\ pc' = "idle"
            /\ ctx' = "none"
    /\ UNCHANGED << tradeBars, thread, stopped, enableReconnection, threads, queue,
                    initialized, spc, lastStop, nextId, inserted, returned, hist >>

\* dispatch() before any transport thread exists: None.getQueue()
DispatchNoThread ==
    /\ pc = "idle"
    /\ thread = NoThread
    /\ lastRet' = Ret("dispatch", FALSE, "AttributeError", "none")
    /\ UNCHANGED << tradeBars, thread, stopped, enableReconnection, threads, queue,
                    pc, ctx, initialized, spc, lastStop, nextId, inserted,
                    returned, hist >>

\* dispatch() when Queue.get times out
DispatchEmpty ==
    /\ pc = "idle"
    /\ thread # NoThread
    /\ queue = <<>>
    /\ lastRet' = Ret("dispatch", emptyRet \/ baseDispatch, "none", "Empty")
    /\ UNCHANGED << tradeBars, thread, stopped, enableReconnection, threads, queue,
                    pc, ctx, initialized, spc, lastStop, nextId, inserted,
                    returned, hist >>

\* dispatch() taking one event from the queue of self.__thread
DispatchEvent ==
    /\ pc = "idle"
    /\ thread # NoThread
    /\ queue # <<>>
    /\ LET ev   == Head(queue)
           done == Ret("dispatch", routedRet(ev.type) \/ baseDispatch, "none", ev.type)
       IN  /\ queue' = takeOne(queue)
           /\ IF ev.type = "TRADE"
              THEN /\ tradeBars' = onTrade(tradeBars, ev.data)
                   /\ inserted' = Append(inserted, ev.data)
                   /\ lastRet' = done
                   /\ UNCHANGED << stopped, pc, ctx, hist >>
              ELSE IF ev.type = "DISCONNECTED"
              THEN /\ UNCHANGED << tradeBars, inserted >>
                   /\ hist' = [hist EXCEPT !.oldThread = thread, !.pollFailed = FALSE,
                                            !.discOff = @ \/ ~enableReconnection]
                   /\ IF enableReconnection
                      THEN /\ pc' = "recon"
                           /\ ctx' = "dispatch"
                           /\ UNCHANGED << stopped, lastRet >>
                      ELSE /\ stopped' = stoppedOnDisconnect(stopped)
                           /\ lastRet' = done
                           /\ UNCHANGED << pc, ctx >>
              ELSE \* ORDER_BOOK_UPDATE goes to the observers, another tag is logged
                   /\ lastRet' = done
                   /\ UNCHANGED << tradeBars, inserted, stopped, pc, ctx, hist >>
    /\ UNCHANGED << thread, enableReconnection, threads, initialized, spc,
                    lastStop, nextId, returned >>

Dispatch == DispatchNoThread \/ DispatchEmpty \/ DispatchEvent

\* getNextBars()
GetNextBars ==
    /\ pc = "idle"
    /\ IF Len(tradeBars) # 0
       THEN /\ tradeBars' = nextBarsDict(tradeBars)
            /\ returned' = Append(returned, nextBarsEntry(tradeBars))
            /\ lastRet' = Ret("getNextBars", TRUE, "none", "none")
       ELSE /\ lastRet' = Ret("getNextBars", FALSE, "none", "none")
            /\ UNCHANGED << tradeBars, returned >>
    /\ UNCHANGED << thread, stopped, enableReconnection, threads, queue, pc, ctx,
                    initialized, spc, lastStop, nextId, inserted, hist >>

\* join(): waits for the transport thread, if there is one
Join ==
    /\ pc \in {"idle", "join"}
    /\ IF thread # NoThread /\ threads[thread].alive
       THEN pc' = "join"
       ELSE pc' = "idle"
    /\ UNCHANGED << lastRet, tradeBars, thread, stopped, enableReconnection, threads, queue,
                    ctx, initialized, spc, lastStop, nextId, inserted, returned,
                    hist >>

\* ----------------------------------------------- the thread calling stop()

\* stop(): self.__stopped = True
StopBegin ==
    /\ spc = "idle"
    /\ stopped' = TRUE
    /\ spc' = "check"
    /\ hist' = [hist EXCEPT !.stopCalled = TRUE]
    /\ UNCHANGED << tradeBars, thread, enableReconnection, threads, queue, pc, ctx,
                    initialized, lastRet, lastStop, nextId, inserted, returned >>

\* stop(): if self.__thread is not None and self.__thread.is_alive():
\* self.__thread.stop(); is_alive and stop may throw.  The test and the call
\* it guards are one step.
StopFinish ==
    /\ spc = "check"
    /\ \E o \in {"ok", "aliveThrows", "stopThrows"} :
         LET t    == thread
             asks == t # NoThread /\ o # "aliveThrows" /\ threads[t].alive
             exc  == IF t # NoThread /\ (o = "aliveThrows" \/ (asks /\ o = "stopThrows"))
                     THEN "Exception" ELSE "none"
         IN  /\ threads' = IF asks /\ o = "ok"
                           THEN [threads EXCEPT ![t].stopReq = TRUE]
                           ELSE threads
             /\ lastStop' = IF stopCatch(exc) # "none" THEN "raised"
                            ELSE IF exc # "none" THEN "caught" ELSE "clean"
    /\ spc' = "idle"
    /\ UNCHANGED << tradeBars, thread, stopped, enableReconnection, queue, pc, ctx,
                    initialized, lastRet, nextId, inserted, returned, hist >>

\* ------------------------------------------------ the transport (environment)

\* the transport thread the feed holds signals readiness
ThreadReady ==
    /\ thread # NoThread
    /\ threads[thread].alive
    /\ ~threads[thread].ready
    /\ threads' = [threads EXCEPT ![thread].ready = TRUE]
    /\ UNCHANGED << tradeBars, thread, stopped, enableReconnection, queue, pc, ctx,
                    initialized, spc, lastRet, lastStop, nextId, inserted,
                    returned, hist >>

\* a transport thread ends
ThreadExit ==
    /\ \E t \in 1..Len(threads) :
         /\ threads[t].alive
         /\ threads' = [threads EXCEPT ![t].alive = FALSE]
    /\ UNCHANGED << tradeBars, thread, stopped, enableReconnection, queue, pc, ctx,
                    initialized, spc, lastRet, lastStop, nextId, inserted,
                    returned, hist >>

\* the transport thread the feed holds reports a trade: a new trade object
\* with one of the given timestamps and payloads
TransportTrade(limit, times, payloads) ==
    /\ thread # NoThread
    /\ threads[thread].alive
    /\ threads[thread].ready
    /\ Len(queue) < MaxQueue
    /\ nextId <= limit
    /\ \E tm \in times, p \in payloads :
         queue' = Append(queue, Event("TRADE",
                     [id |-> nextId, dateTime |-> tm, instrument |-> p.instrument,
                      price |-> p.price, amount |-> p.amount]))
    /\ nextId' = nextId + 1
    /\ UNCHANGED << tradeBars, thread, stopped, enableReconnection, threads, pc,
                    ctx, initialized, spc, lastRet, lastStop, inserted, returned,
                    hist >>

\* any trade of the market
ThreadTrade == TransportTrade(MaxTrades, 1..MaxTime, TradePayloads)

\* the trade of the scenario of the specification, section 8.7
ThreadTradeLive ==
    TransportTrade(MaxLiveTrades, {1}, {[instrument |-> "AAPL", price |-> 1500, amount |-> 5]})

\* the transport thread the feed holds reports anything else
ThreadEvent ==
    /\ thread # NoThread
    /\ threads[thread].alive
    /\ Len(queue) < MaxQueue
    /\ \E type \in EventTypes \ {"TRADE"} :
         queue' = Append(queue, Event(type, NoTrade))
    /\ UNCHANGED << tradeBars, thread, stopped, enableReconnection, threads, pc,
                    ctx, initialized, spc, lastRet, lastStop, nextId, inserted,
                    returned, hist >>

Next ==
    \/ EnableReconection
    \/ Start
    \/ Build
    \/ Wait
    \/ Recon
    \/ Dispatch
    \/ GetNextBars
    \/ Join
    \/ StopBegin
    \/ StopFinish
    \/ ThreadReady
    \/ ThreadExit
    \/ ThreadTradeLive
    \/ ThreadEvent

\* The whole feed: every operation, stop() on a second thread, every event
\* and every failure of the transport, with few trades.
Spec == Init /\ [][Next]_vars

NextBuffer ==
    \/ Start
    \/ Build
    \/ Wait
    \/ Dispatch
    \/ GetNextBars
    \/ ThreadReady
    \/ ThreadTrade

\* The feed under a quiet transport that reports trades only, of every
\* timestamp and payload of the market: the specification of the trade buffer.
SpecBuffer == Init /\ [][NextBuffer]_vars

NextCancel ==
    \/ Start
    \/ Build
    \/ Wait
    \/ Recon
    \/ Dispatch
    \/ StopBegin
    \/ StopFinish
    \/ ThreadReady
    \/ ThreadExit
    \/ ThreadEvent

\* The connection life cycle alone, with stop() on a second thread.  The
\* caller's thread keeps running: the try block of __initializeClient, each
\* bounded readiness poll and the test of the reconnection loop all come to
\* their end, so each of these steps is taken once it stays possible.
SpecCancel ==
    /\ Init
    /\ [][NextCancel]_vars
    /\ WF_vars(Build)
    /\ WF_vars(Wait)
    /\ WF_vars(Recon)

\* ===================================================== the trade buffer

\* the timestamps the buffer holds
Keys(d) == { d[i][1] : i \in 1..Len(d) }

\* the list the buffer holds under timestamp k
Lookup(d, k) == LET i == CHOOSE j \in 1..Len(d) : d[j][1] = k IN d[i][2]

\* every entry the buffer holds
Entries(d) == UNION { { d[i][2][j] : j \in 1..Len(d[i][2]) } : i \in 1..Len(d) }

\* the place of a trade in the order of insertion
InsertPos(trade) == CHOOSE i \in 1..Len(inserted) : inserted[i] = trade

TimesNonDecreasing(trades) ==
    \A i, j \in 1..Len(trades) : i < j => trades[i].dateTime <= trades[j].dateTime

ReturnedTrades == [ i \in 1..Len(returned) |-> returned[i].trade ]

\* bars of one timestamp come out in the order their trades went in
EqualTimesFifo ==
    \A i, j \in 1..Len(returned) :
        (i < j /\ returned[i].trade.dateTime = returned[j].trade.dateTime)
            => InsertPos(returned[i].trade) < InsertPos(returned[j].trade)

\* C1, as stated: over every interleaving of dispatch and getNextBars the
\* bars returned so far have non-decreasing timestamps, and equal timestamps
\* come out in insertion order.
C1_ReturnedNonDecreasing ==
    TimesNonDecreasing(ReturnedTrades) /\ EqualTimesFifo

\* C1, amended: each getNextBars call returns the bar of the smallest
\* timestamp buffered at the time of the call, the first inserted among the
\* bars of that timestamp; bars of equal timestamps come out in insertion
\* order over the whole run.
C1_ReturnsEarliestBuffered ==
    /\ [](EqualTimesFifo)
    /\ [][ (GetNextBars /\ tradeBars # <<>>) =>
             LET e == returned'[Len(returned')]
             IN  /\ Len(returned') = Len(returned) + 1
                 /\ e \in Entries(tradeBars)
                 /\ \A x \in Entries(tradeBars) :
                      /\ e.trade.dateTime <= x.trade.dateTime
                      /\ (x # e /\ e.trade.dateTime = x.trade.dateTime)
                            => InsertPos(e.trade) < InsertPos(x.trade) ]_vars

\* C1 witness: two trades arrived latest-first, were buffered together and
\* came out earliest-first.
C1_Witness ==
    /\ Len(inserted) >= 2
    /\ Len(returned) >= 2
    /\ inserted[1].dateTime > inserted[2].dateTime
    /\ returned[1].trade = inserted[2]
    /\ returned[2].trade = inserted[1]

\* C2: when the trades inserted so far arrived with non-decreasing
\* timestamps, the bars returned so far are the first of them, in arrival
\* order, whatever their instrument and price.
C2_ArrivalOrder ==
    TimesNonDecreasing(inserted) =>
        /\ Len(returned) <= Len(inserted)
        /\ \A i \in 1..Len(returned) : returned[i].trade = inserted[i]

\* C2 witness: two trades of one timestamp, the second with the smaller
\* price and the smaller instrument name, came out in arrival order.
C2_Witness ==
    /\ Len(inserted) = MaxTrades
    /\ Len(returned) = MaxTrades
    /\ TimesNonDecreasing(inserted)
    /\ inserted[1].dateTime = inserted[2].dateTime
    /\ inserted[1].instrument = "MSFT" /\ inserted[2].instrument = "AAPL"
    /\ inserted[2].dateTime = inserted[3].dateTime
    /\ inserted[2].price > inserted[3].price
    /\ tradeBars = <<>>

\* C3: the buffer maps no timestamp to an empty list, and holds no key at
\* all once as many bars were returned as trades were inserted.
C3_NoEmptyLists ==
    /\ \A i \in 1..Len(tradeBars) : tradeBars[i][2] # <<>>
    /\ (Len(returned) = Len(inserted)) => tradeBars = <<>>

\* C3 witness: trades of two timestamps were inserted and all drained.
C3_Witness ==
    /\ Len(inserted) = MaxTrades
    /\ Len(returned) = Len(inserted)
    /\ inserted[1].dateTime # inserted[2].dateTime
    /\ tradeBars = <<>>
    /\ lastRet.op = "getNextBars"

\* C10: getNextBars on an empty buffer returns none and changes nothing; on
\* a buffer that holds bars it returns exactly one, the first inserted bar
\* of the smallest timestamp, and every other bar stays under its timestamp
\* in its order.
C10_PopsExactlyOne ==
    [][ GetNextBars =>
          IF tradeBars = <<>>
          THEN /\ lastRet'.ret = FALSE
               /\ UNCHANGED << tradeBars, returned, inserted, thread, stopped,
                               enableReconnection, threads, queue >>
          ELSE LET e  == returned'[Len(returned')]
                   tm == e.trade.dateTime
               IN  /\ lastRet'.ret = TRUE
                   /\ Len(returned') = Len(returned) + 1
                   /\ \A k \in Keys(tradeBars) : tm <= k
                   /\ e = Lookup(tradeBars, tm)[1]
                   /\ Entries(tradeBars') = Entries(tradeBars) \ {e}
                   /\ Keys(tradeBars') =
                        IF Len(Lookup(tradeBars, tm)) = 1
                        THEN Keys(tradeBars) \ {tm} ELSE Keys(tradeBars)
                   /\ \A k \in Keys(tradeBars') :
                        Lookup(tradeBars', k) =
                           IF k = tm THEN Tail(Lookup(tradeBars, k))
                           ELSE Lookup(tradeBars, k)
                   /\ UNCHANGED << inserted, thread, stopped, enableReconnection,
                                   threads, queue >> ]_vars

\* C10 witness: two trades of one timestamp were buffered together; the
\* first call returned the first of them and left the second under its
\* timestamp.
C10_Witness ==
    /\ Len(inserted) = 2
    /\ Len(returned) = 1
    /\ lastRet.op = "getNextBars"
    /\ inserted[1].dateTime = inserted[2].dateTime
    /\ returned[1].trade = inserted[1]
    /\ tradeBars = << <<inserted[2].dateTime, <<Entry(inserted[2])>> >> >>

\* ===================================================== the life cycle

\* the last operation completed on the caller's thread
Did(op) == pc = "idle" /\ lastRet.op = op

InitializationFailures == {"InitializationFailed", "AttributeError"}

\* C4: eof() is false after a start() that returned normally (no stop()
\* having been called), true once stop() has been called, and true after a
\* start() that failed to initialize, whether the transport could not be
\* constructed or started or readiness was not signalled before the stop.
C4_EofAfterStart ==
    /\ (Did("start") /\ lastRet.exc = "none" /\ ~hist.stopCalled) => ~eof
    /\ hist.stopCalled => eof
    /\ (Did("start") /\ lastRet.exc \in InitializationFailures) => eof

\* C5, as stated: once a DISCONNECTED event was dispatched with reconnection
\* disabled, eof() is true and no later dispatch call inserts a trade into
\* the buffer (stated for the runs in which nobody calls stop()).
C5_NoTradeAfterDisconnect ==
    /\ [](hist.discOff => eof)
    /\ [][ (hist.discOff /\ ~hist.stopCalled) => inserted' = inserted ]_vars

\* a dispatch call takes a DISCONNECTED event while reconnection is disabled
DisconnectedOff ==
    DispatchEvent /\ Head(queue).type = "DISCONNECTED" /\ ~enableReconnection

\* C5, amended: the dispatch call that takes a DISCONNECTED event while
\* reconnection is disabled returns true without raising, leaves eof() true
\* for good, inserts nothing into the buffer and builds no transport thread.
C5_DisconnectStops ==
    /\ [](hist.discOff => eof)
    /\ [][ DisconnectedOff =>
             /\ eof'
             /\ pc' = "idle"
             /\ lastRet' = Ret("dispatch", TRUE, "none", "DISCONNECTED")
             /\ UNCHANGED << tradeBars, inserted, thread, threads >> ]_vars

\* C5 witness: the feed stopped on a DISCONNECTED event and a TRADE event is
\* still in the queue.
C5_Witness ==
    /\ Did("dispatch")
    /\ lastRet.event = "DISCONNECTED"
    /\ hist.discOff
    /\ eof
    /\ ~hist.stopCalled
    /\ queue # <<>>
    /\ Head(queue).type = "TRADE"

\* a dispatch call has reconnected: it took a DISCONNECTED event, the first
\* readiness poll of the initialization timed out, and nobody called stop()
ReconnectedOnLaterPoll ==
    /\ Did("dispatch")
    /\ lastRet.event = "DISCONNECTED"
    /\ hist.pollFailed
    /\ ~hist.stopCalled

C8_SecondStartFails ==
    [][ (Start /\ thread # NoThread) =>
          /\ lastRet'.exc = "AlreadyRunning"
          /\ pc' = "idle"
          /\ UNCHANGED << thread, threads, stopped, tradeBars, queue >> ]_vars

\* C8 witness: a second start() after a first one that failed, the transport
\* thread it built never having become ready.
C8_Witness ==
    /\ Did("start")
    /\ lastRet.exc = "AlreadyRunning"
    /\ Len(threads) = 1
    /\ ~threads[1].ready
    /\ eof

\* a step of stop() asks a thread to terminate only if it is the thread the
\* feed holds and it is alive, and changes nothing else of the threads
AsksOnlyLiveThread ==
    \/ threads' = threads
    \/ /\ thread # NoThread
       /\ threads[thread].alive
       /\ threads' = [threads EXCEPT ![thread].stopReq = TRUE]

\* C9: stop() never raises, whatever is_alive() and the transport's stop()
\* do; it sets the stop flag, asks only a live transport thread to
\* terminate, and on a feed already stopped it changes no field of the feed.
C9_StopNeverRaises ==
    /\ [](lastStop # "raised")
    /\ [](spc = "check" => eof)
    /\ [][ (StopBegin \/ StopFinish) =>
             /\ eof'
             /\ AsksOnlyLiveThread
             /\ UNCHANGED << thread, tradeBars, enableReconnection, queue, pc >>
             /\ (eof => UNCHANGED stopped) ]_vars

\* C9 witness: stop() ran during a reconnection and the transport's stop, or
\* its liveness check, threw.
C9_Witness ==
    /\ lastStop = "caught"
    /\ spc = "idle"
    /\ ctx = "dispatch"
    /\ pc \in {"wait", "recon"}
    /\ eof

\* C11: the stop flag, once set, stays set over every later step of start,
\* dispatch, getNextBars, stop and join and over every later event: no step
\* takes eof() from true to false.
C11_StoppedIsTerminal ==
    [][ eof => eof' ]_vars

\* C11 witness: the feed stopped on a DISCONNECTED event, stop() ran to its
\* end as well, and a getNextBars call made after the flag was set finds
\* eof() still true.
C11_Witness ==
    /\ eof
    /\ hist.discOff
    /\ hist.stopCalled
    /\ lastStop = "clean"
    /\ Did("getNextBars")
    /\ Len(threads) = 1
    /\ queue = <<>>

\* the accessors a bar answers
BarFields == {"dateTime", "instrument", "open", "high", "low", "close", "volume", "trade"}

\* the value an entry carries is the bar of an inserted trade
IsBarOfTrade(e) ==
    /\ DOMAIN e.trade = BarFields
    /\ \E i \in 1..Len(inserted) :
         /\ e.instrument = inserted[i].instrument
         /\ e.trade = TradeBar(inserted[i])

\* C12: every entry getNextBars has handed out for a dispatched TRADE event
\* is the bar of that trade, keyed by the trade's instrument: open, high,
\* low and close are the trade's price, the volume its amount and the
\* timestamp its timestamp.
C12_BarProjection ==
    \A i \in 1..Len(returned) : IsBarOfTrade(returned[i])

\* ===================================================== initialization

\* the try block of the __initializeClient call in progress threw: no thread
\* was ever built, the thread built could not be started, or (a dispatch
\* call reconnects at most once) the thread held is still the one that
\* reported the disconnection
BuildFailed ==
    /\ pc = "wait"
    /\ \/ thread = NoThread
       \/ ~threads[thread].started
       \/ ctx = "dispatch" /\ thread = hist.oldThread

\* C13: after a construction or start failure of the transport the wait loop
\* of initialize never raises and is left only once stop is requested, with
\* the result false: start() then fails with "Initialization failed", a
\* reconnection goes back to the test of its loop.
C13_BuildFailureReported ==
    [][ (Wait /\ BuildFailed /\ pc' # "wait") =>
          /\ stopped
          /\ ~initialized
          /\ IF ctx = "start"
             THEN pc' = "idle" /\ lastRet'.exc = "InitializationFailed"
             ELSE pc' = "recon" ]_vars

\* ===================================================== the dispatch loop

\* the tags the dispatch loop routes
RoutedTypes == {"TRADE", "ORDER_BOOK_UPDATE", "DISCONNECTED"}

\* C14: a dispatch call that took an event returns without raising, true
\* exactly when the event is a TRADE, an ORDER_BOOK_UPDATE or a DISCONNECTED
\* event; an event of another tag is dropped, the call returns false at
\* once, and the buffer, the stop flag, the thread handle and the threads
\* are as they were.
C14_RoutedResult ==
    /\ []( (Did("dispatch") /\ lastRet.event \in EventTypes) =>
              /\ lastRet.exc = "none"
              /\ lastRet.ret = (lastRet.event \in RoutedTypes) )
    /\ [][ (DispatchEvent /\ Head(queue).type \notin RoutedTypes) =>
             /\ lastRet' = Ret("dispatch", FALSE, "none", Head(queue).type)
             /\ pc' = "idle"
             /\ queue' = Tail(queue)
             /\ UNCHANGED << tradeBars, inserted, returned, stopped, thread,
                             threads, enableReconnection >> ]_vars

\* C14 witness: an event of an unknown tag was dropped while the buffer held
\* a bar and the feed was running.
C14_Witness ==
    /\ Did("dispatch")
    /\ lastRet.event = "UNKNOWN"
    /\ ~lastRet.ret
    /\ tradeBars # <<>>
    /\ ~eof
    /\ threads[thread].alive

\* the number of entries the buffer holds (entries are distinct objects)
BufferSize(d) == Cardinality(Entries(d))

\* q1 begins with q
IsPrefix(q, q1) == Len(q) <= Len(q1) /\ SubSeq(q1, 1, Len(q)) = q

\* C15: a dispatch call takes exactly the event at the head of the queue, or
\* none when the queue is empty or there is no thread; a TRADE event taken
\* adds exactly one entry to the buffer, its own, and another event none;
\* and while the call goes on in a reconnection no further event leaves the
\* queue of the thread held and the buffer stays as it is.
C15_OneDequeue ==
    [][ /\ DispatchEvent =>
             /\ queue' = Tail(queue)
             /\ IF Head(queue).type = "TRADE"
                THEN /\ BufferSize(tradeBars') = BufferSize(tradeBars) + 1
                     /\ Entries(tradeBars') =
                           Entries(tradeBars) \cup {Entry(Head(queue).data)}
                ELSE tradeBars' = tradeBars
        /\ (DispatchEmpty \/ DispatchNoThread) =>
             UNCHANGED << queue, tradeBars >>
        /\ (ctx = "dispatch" /\ pc # "idle") =>
             /\ tradeBars' = tradeBars
             /\ thread' = thread => IsPrefix(queue, queue') ]_vars

\* C15 witness: a dispatch call took a DISCONNECTED event and went into the
\* reconnection while a TRADE event behind it stayed in the queue.
C15_Witness ==
    /\ pc = "recon"
    /\ ctx = "dispatch"
    /\ Len(queue) = 1
    /\ Head(queue).type = "TRADE"
    /\ ~eof

\* ===================================================== cancellation

\* a dispatch call is inside the reconnection: at the test of the loop, in
\* the try block of initialize, or in its wait loop
Reconnecting == ctx = "dispatch" /\ pc \in {"recon", "build", "wait"}

\* C16, as stated: once stop() has set the flag while a dispatch call is
\* inside the reconnection, the initialize call in progress returns false
\* (stated for the calls whose try block built and started a new thread).
C16_InitializeReturnsFalse ==
    [][ (Wait /\ Reconnecting /\ ~BuildFailed /\ stopped /\ pc' # "wait") =>
          pc' = "recon" ]_vars

\* C16, amended: once stop() has set the flag while a dispatch call is
\* inside the reconnection, the wait loop is left at its next test, with the
\* result false unless the poll before had reported readiness; the test of
\* the reconnection loop then ends the loop without building a thread; and
\* the dispatch call returns, true and without raising.
C16_CancelReconnection ==
    /\ [][ (Wait /\ Reconnecting /\ stopped) =>
             /\ pc' = (IF initialized THEN "idle" ELSE "recon")
             /\ UNCHANGED << thread, threads, stopped >> ]_vars
    /\ [][ (Recon /\ stopped) =>
             /\ pc' = "idle"
             /\ lastRet' = Ret("dispatch", TRUE, "none", "DISCONNECTED")
             /\ UNCHANGED << thread, threads, stopped >> ]_vars
    /\ (Reconnecting /\ stopped) ~> (pc = "idle" /\ lastRet.op = "dispatch")

\* C16 witness: stop() ran to its end while the reconnection waited for a
\* new thread that never became ready, and the dispatch call has returned.
C16_Witness ==
    /\ Did("dispatch")
    /\ lastRet.event = "DISCONNECTED"
    /\ hist.stopCalled
    /\ hist.pollFailed
    /\ spc = "idle"
    /\ thread # hist.oldThread
    /\ ~threads[thread].ready

\* C17: dispatch() never raises: every completed dispatch call, before
\* start(), after a failed start(), after stop() and during or after a
\* reconnection, has returned a boolean.
C17_DispatchNeverRaises ==
    Did("dispatch") => lastRet.exc = "none"

\* C18: whenever initialize returns true, the thread the feed holds was
\* built and started by that call and has itself signalled readiness; in a
\* reconnection it is not the thread that reported the disconnection.
C18_ReadinessOfOwnThread ==
    [][ (Wait /\ initialized) =>
          /\ thread # NoThread
          /\ threads[thread].started
          /\ threads[thread].ready
          /\ ctx = "dispatch" => thread # hist.oldThread ]_vars

\* ===================================================== conservation

\* how often x occurs in a sequence
CountIn(seq, x) == Cardinality({ i \in 1..Len(seq) : seq[i] = x })

\* how often the buffer holds an entry of trade x
BufferCount(d, x) ==
    Cardinality({ ij \in (1..Len(d)) \X (1..MaxTrades) :
                    /\ ij[2] <= Len(d[ij[1]][2])
                    /\ d[ij[1]][2][ij[2]].trade = x })

\* every trade the run has seen
SeenTrades ==
    { inserted[i] : i \in 1..Len(inserted) }
        \cup { returned[i].trade : i \in 1..Len(returned) }
        \cup { e.trade : e \in Entries(tradeBars) }

\* C19: every trade inserted by a dispatched TRADE event is, as often as it
\* was inserted, either among the bars returned or in the buffer, there
\* under its own timestamp and instrument; nothing else is returned or
\* buffered.
C19_Conservation ==
    /\ \A x \in SeenTrades :
         CountIn(inserted, x) = CountIn(ReturnedTrades, x) + BufferCount(tradeBars, x)
    /\ Len(inserted) = Len(returned) + BufferSize(tradeBars)
    /\ \A i \in 1..Len(tradeBars) : \A j \in 1..Len(tradeBars[i][2]) :
         LET e == tradeBars[i][2][j]
         IN  e = Entry(e.trade) /\ e.trade.dateTime = tradeBars[i][1]
    /\ \A i \in 1..Len(returned) : returned[i] = Entry(returned[i].trade)

\* C19 witness: three trades of one timestamp, two of them equal in
\* instrument, price and amount, were inserted; one was returned and the
\* two equal ones are in the buffer.
C19_Witness ==
    /\ Len(inserted) = 3
    /\ Len(returned) = 1
    /\ BufferSize(tradeBars) = 2
    /\ \A i \in 1..3 : inserted[i].dateTime = inserted[1].dateTime
    /\ inserted[2].instrument = inserted[3].instrument
    /\ inserted[2].price = inserted[3].price
    /\ inserted[2].amount = inserted[3].amount
    /\ inserted[1].price # inserted[2].price

\* ===================================================== transport threads

\* the threads that run and were never asked to stop
RunningThreads ==
    { t \in 1..Len(threads) :
        threads[t].started /\ threads[t].alive /\ ~threads[t].stopReq }

\* C20: once a stop() call has returned and the caller's thread is in no
\* operation, every transport thread the feed has started has ended or was
\* asked to stop; and at no time do two started threads run that were not
\* asked to stop.  (Stated for the stop() calls in which neither is_alive()
\* nor the transport's stop() threw.)
C20_NoThreadLeaked ==
    /\ (lastStop = "clean" /\ spc = "idle" /\ pc = "idle") => RunningThreads = {}
    /\ Cardinality(RunningThreads) <= 1

====
